---- MODULE Spec2Model ----
(***************************************************************************)
(* A model of src/app.py: the /apply request handler (form parsing,        *)
(* required-field validation, one-row insert with rollback, logging), the  *)
(* domain encoder it uses, and the start-up schema bootstrap.              *)
(*                                                                         *)
(* A text value is a sequence of characters (<<"a", ",">> is "a,").  A     *)
(* value read with request.form.get is either None or a text: None is      *)
(* <<>> and the text s is <<s>>, so the empty text is << <<>> >>.          *)
(***************************************************************************)
EXTENDS Integers, Sequences, FiniteSets, TLC

\* ------------------------------------------------------------------ bounds
\* concurrent POST/GET requests to /apply
NReq == 2
\* longest "domains" list a form carries
MaxDomains == 2
\* most places where one form differs from the reference valid form: a field
\* that is absent or empty, or a "domains" list other than the reference list
MaxDeviations == 1
\* longest text and longest list the encoder is tried on
EncMaxLen == 2
EncMaxList == 2
\* most starts of the process, and most rows the table holds from earlier runs
MaxBoots == 3
MaxOldRows == 2

\* --------------------------------------------------------------- variables
VARIABLES
    pc,        \* pc[r]: where request r is in apply()
    method,    \* method[r]: "-", "GET" or "POST"
    form,      \* form[r]: request.form of request r
    exc,       \* exc[r]: the exception request r last saw raised
    response,  \* response[r]: what apply() returned, or that it raised
    trace,     \* trace[r]: the log records and session calls of r, in order
    pending,   \* pending[r]: objects added to r's session, not yet committed
    rows,      \* the rows of ltlab_schema.applications
    createdBy, \* createdBy[id]: the request whose commit stored row id
    nextId,    \* next value of the id sequence of the table
    encPc,     \* the encoder round trip: "input", "encoded", "decoded"
    encList,   \* the list given to the encoder
    encText,   \* the text the encoder made of it
    encBack,   \* that text split on ","
    bootPc,    \* where the process is in its __main__ block
    bootRuns,  \* how often the process was started
    bootError, \* the error that ended the last start, or "none"
    schemaExists,  \* ltlab_schema exists (committed)
    schemaPending, \* CREATE SCHEMA was executed and is not yet committed
    tableExists,   \* ltlab_schema.applications exists
    bootDone       \* the store as each completed start left it, in order

handlerVars == <<pc, method, form, exc, response, trace, pending>>
storeVars == <<rows, createdBy, nextId>>
encVars == <<encPc, encList, encText, encBack>>
bootVars == <<bootPc, bootRuns, bootError, schemaExists, schemaPending, tableExists, bootDone>>
vars == <<handlerVars, storeVars, encVars, bootVars>>

Requests == 1..NReq

\* ------------------------------------------------------------ form values
None == <<>>
Text(s) == <<s>>
EmptyText == <<>>
Comma == ","

\* the names apply() reads with request.form.get
Fields == {"email", "fullName", "gender", "whatsapp", "college", "country", "linkedin"}

\* one non-empty text per field, all different
GoodText ==
    [k \in Fields |->
        CASE k = "email" -> <<"e">>
          [] k = "fullName" -> <<"f">>
          [] k = "gender" -> <<"g">>
          [] k = "whatsapp" -> <<"w">>
          [] k = "college" -> <<"c">>
          [] k = "country" -> <<"u">>
          [] k = "linkedin" -> <<"l">>]

\* the values a "domains" checkbox may carry
DomainValues == {EmptyText, <<"a">>}

SeqsUpTo(S, n) == UNION {[1..k -> S] : k \in 0..n}

DomainLists == SeqsUpTo(DomainValues, MaxDomains)

\* the reference valid form: every field filled in, one domain selected
GoodFields == [k \in Fields |-> Text(GoodText[k])]
GoodDomains == << <<"a">> >>

RECURSIVE FieldMaps(_)
\* the field maps with at most n fields absent or empty
FieldMaps(n) ==
    IF n = 0 THEN {GoodFields}
    ELSE FieldMaps(n - 1) \cup
         {[g EXCEPT ![k] = v] : g \in FieldMaps(n - 1), k \in Fields, v \in {None, Text(EmptyText)}}

BadFields(fs) == {k \in Fields : fs[k] # GoodFields[k]}

Deviations(fs, ds) == Cardinality(BadFields(fs)) + (IF ds = GoodDomains THEN 0 ELSE 1)

Forms ==
    {f \in [fields : FieldMaps(MaxDeviations), domains : DomainLists] :
        Deviations(f.fields, f.domains) <= MaxDeviations}

\* the forms of the requests that run beside request 1: the reference valid
\* form and the same form with no domain selected
TrafficForms ==
    {[fields |-> GoodFields, domains |-> GoodDomains], [fields |-> GoodFields, domains |-> <<>>]}

\* request 1 carries any form, the others a traffic form
FormsOf(r) == IF r = 1 THEN Forms ELSE TrafficForms

NoForm == [fields |-> [k \in Fields |-> None], domains |-> <<>>]

\* request.form.get(name): the value, or None
FormGet(f, name) == f.fields[name]

\* request.form.getlist("domains")
FormGetList(f) == f.domains

\* ---------------------------------------------------------- domain encoder
RECURSIVE JoinComma(_)
\* ",".join(L)
JoinComma(L) ==
    IF L = <<>> THEN EmptyText
    ELSE IF Len(L) = 1 THEN L[1]
    ELSE L[1] \o <<Comma>> \o JoinComma(Tail(L))

\* a plausible slip: the list is deduplicated before it is joined
RECURSIVE Dedup(_)
Dedup(L) ==
    IF L = <<>> THEN <<>>
    ELSE LET rest == Dedup(SubSeq(L, 1, Len(L) - 1))
             last == L[Len(L)]
         IN IF \E i \in 1..Len(rest) : rest[i] = last THEN rest ELSE Append(rest, last)

DomainEncodeDedup(L) == IF L # <<>> THEN JoinComma(Dedup(L)) ELSE EmptyText

\* domains = ",".join(domains_list) if domains_list else ""
DomainEncode(L) == IF L # <<>> THEN JoinComma(L) ELSE EmptyText

RECURSIVE SplitComma(_)
\* s.split(","): the pieces of s between its commas, empty pieces kept
SplitComma(s) ==
    IF \A i \in 1..Len(s) : s[i] # Comma THEN <<s>>
    ELSE LET i == CHOOSE j \in 1..Len(s) :
                      s[j] = Comma /\ \A m \in 1..(j - 1) : s[m] # Comma
         IN <<SubSeq(s, 1, i - 1)>> \o SplitComma(SubSeq(s, i + 1, Len(s)))

\* ---------------------------------------------------------------- validator
\* Python truth of a value read with form.get: None and "" are false
Truthy(v) == v # None /\ v[1] # EmptyText

\* Python truth of a text
TextTruthy(s) == s # EmptyText

\* a plausible slip: linkedin is left out of the all([...]) list
ValidSkipsLinkedin(f) ==
    /\ \A k \in Fields \ {"linkedin"} : Truthy(FormGet(f, k))
    /\ TextTruthy(DomainEncode(FormGetList(f)))

\* all([email, full_name, gender, whatsapp, education, country, linkedin, domains])
Valid(f) ==
    /\ Truthy(FormGet(f, "email"))
    /\ Truthy(FormGet(f, "fullName"))
    /\ Truthy(FormGet(f, "gender"))
    /\ Truthy(FormGet(f, "whatsapp"))
    /\ Truthy(FormGet(f, "college"))
    /\ Truthy(FormGet(f, "country"))
    /\ Truthy(FormGet(f, "linkedin"))
    /\ TextTruthy(DomainEncode(FormGetList(f)))

\* ---------------------------------------------------------------- responses
ValidationMessage == "Please fill in all required fields and select at least one domain."
FailureMessage == "Internal server error while saving your application."

NoResponse == [kind |-> "none", status |-> 0, body |-> "", error |-> "", location |-> ""]

\* render_template("apply.html", error=err); error=None is ""
RenderApply(err) ==
    [kind |-> "render", status |-> 200, body |-> "apply.html", error |-> err, location |-> ""]

\* redirect(url_for("thank_you"))
RedirectThankYou ==
    [kind |-> "redirect", status |-> 302, body |-> "", error |-> "", location |-> "/thank-you"]

\* a plausible slip: the exception text is put into the body
FailureResponseLeaks(e) ==
    [kind |-> "text", status |-> 500, body |-> e, error |-> "", location |-> ""]

\* return "Internal server error while saving your application.", 500
FailureResponse(e) ==
    [kind |-> "text", status |-> 500, body |-> FailureMessage, error |-> "", location |-> ""]

\* apply() returned nothing: an exception left it
Raised == [kind |-> "raised", status |-> 0, body |-> "", error |-> "", location |-> ""]

\* ------------------------------------------------------------------- store
\* what the store may raise from commit()
StoreErrors == {"OperationalError", "IntegrityError"}
\* what a logger call may raise
LoggingError == "LoggingError"
NoExc == "none"

\* Application(email=email, full_name=full_name, ..., domains=domains)
NewApplication(f) ==
    [email |-> FormGet(f, "email"),
     full_name |-> FormGet(f, "fullName"),
     gender |-> FormGet(f, "gender"),
     whatsapp |-> FormGet(f, "whatsapp"),
     education |-> FormGet(f, "college"),
     country |-> FormGet(f, "country"),
     linkedin |-> FormGet(f, "linkedin"),
     domains |-> DomainEncode(FormGetList(f))]

\* nullable=False on every column
NotNull(a) ==
    /\ a.email # None /\ a.full_name # None /\ a.gender # None /\ a.whatsapp # None
    /\ a.education # None /\ a.country # None /\ a.linkedin # None

\* the row the store keeps for application a under identity i
Row(i, a) == [id |-> i, app |-> a]

\* ------------------------------------------------------------ trace records
LogRec(level, what, detail) == [ev |-> "log", level |-> level, what |-> what, detail |-> detail]
StoreRec(what, detail) == [ev |-> "store", level |-> "", what |-> what, detail |-> detail]

\* ------------------------------------------------------------------ Init
HandlerInit ==
    /\ pc = [r \in Requests |-> "idle"]
    /\ method = [r \in Requests |-> "-"]
    /\ form = [r \in Requests |-> NoForm]
    /\ exc = [r \in Requests |-> NoExc]
    /\ response = [r \in Requests |-> NoResponse]
    /\ trace = [r \in Requests |-> <<>>]
    /\ pending = [r \in Requests |-> <<>>]

EncIdle ==
    /\ encPc = "input"
    /\ encList = <<>>
    /\ encText = EmptyText
    /\ encBack = <<>>

\* the process is up and serving, schema and table in place
BootServing ==
    /\ bootPc = "serving"
    /\ bootRuns = 1
    /\ bootError = "none"
    /\ schemaExists = TRUE
    /\ schemaPending = FALSE
    /\ tableExists = TRUE
    /\ bootDone = <<>>

Init ==
    /\ HandlerInit
    /\ rows = {}
    /\ createdBy = <<>>
    /\ nextId = 1
    /\ EncIdle
    /\ BootServing

\* ---------------------------------------------------------------- actions
\* GET /apply: return render_template("apply.html", error=None)
Get(r) ==
    /\ pc[r] = "idle"
    /\ method' = [method EXCEPT ![r] = "GET"]
    /\ response' = [response EXCEPT ![r] = RenderApply("")]
    /\ pc' = [pc EXCEPT ![r] = "done"]
    /\ UNCHANGED <<form, exc, trace, pending, rows, createdBy, nextId>>
    /\ UNCHANGED <<encVars, bootVars>>

\* POST /apply arrives and its fields are read
Post(r) ==
    /\ pc[r] = "idle"
    /\ \E f \in FormsOf(r) : form' = [form EXCEPT ![r] = f]
    /\ method' = [method EXCEPT ![r] = "POST"]
    /\ pc' = [pc EXCEPT ![r] = "log_form"]
    /\ UNCHANGED <<exc, response, trace, pending, rows, createdBy, nextId>>
    /\ UNCHANGED <<encVars, bootVars>>

\* app.logger.info("FORM DATA -> ...") outside any try
LogFormData(r) ==
    /\ pc[r] = "log_form"
    /\ \/ /\ trace' = [trace EXCEPT ![r] = Append(@, LogRec("INFO", "form_data", NoExc))]
          /\ pc' = [pc EXCEPT ![r] = "validate"]
          /\ UNCHANGED <<exc, response>>
       \/ /\ exc' = [exc EXCEPT ![r] = LoggingError]
          /\ response' = [response EXCEPT ![r] = Raised]
          /\ pc' = [pc EXCEPT ![r] = "done"]
          /\ UNCHANGED trace
    /\ UNCHANGED <<method, form, pending, rows, createdBy, nextId>>
    /\ UNCHANGED <<encVars, bootVars>>

\* if not all([...]): app.logger.warning("Validation failed...") ;
\* return render_template("apply.html", error=error)
RejectInvalid(r) ==
    /\ pc[r] = "validate"
    /\ ~Valid(form[r])
    /\ \/ /\ trace' = [trace EXCEPT ![r] = Append(@, LogRec("WARNING", "validation_failed", NoExc))]
          /\ response' = [response EXCEPT ![r] = RenderApply(ValidationMessage)]
          /\ UNCHANGED exc
       \/ /\ exc' = [exc EXCEPT ![r] = LoggingError]
          /\ response' = [response EXCEPT ![r] = Raised]
          /\ UNCHANGED trace
    /\ pc' = [pc EXCEPT ![r] = "done"]
    /\ UNCHANGED <<method, form, pending, rows, createdBy, nextId>>
    /\ UNCHANGED <<encVars, bootVars>>

\* all([...]) holds: application = Application(...) ; db.session.add(application)
SessionAdd(r) ==
    /\ pc[r] = "validate"
    /\ Valid(form[r])
    /\ pending' = [pending EXCEPT ![r] = Append(@, NewApplication(form[r]))]
    /\ trace' = [trace EXCEPT ![r] = Append(@, StoreRec("add", NoExc))]
    /\ pc' = [pc EXCEPT ![r] = "commit"]
    /\ UNCHANGED <<method, form, exc, response, rows, createdBy, nextId>>
    /\ UNCHANGED <<encVars, bootVars>>

\* db.session.commit(): the INSERT and the COMMIT, atomic in the store
SessionCommit(r) ==
    /\ pc[r] = "commit"
    /\ \/ /\ schemaExists /\ tableExists
          /\ \A i \in 1..Len(pending[r]) : NotNull(pending[r][i])
          /\ rows' = rows \cup {Row(nextId + i - 1, pending[r][i]) : i \in 1..Len(pending[r])}
          /\ createdBy' = createdBy \o [i \in 1..Len(pending[r]) |-> r]
          /\ nextId' = nextId + Len(pending[r])
          /\ pending' = [pending EXCEPT ![r] = <<>>]
          /\ trace' = [trace EXCEPT ![r] = Append(@, StoreRec("commit", NoExc))]
          /\ pc' = [pc EXCEPT ![r] = "log_ok"]
          /\ UNCHANGED exc
       \/ /\ \E e \in StoreErrors :
                /\ exc' = [exc EXCEPT ![r] = e]
                /\ trace' = [trace EXCEPT ![r] = Append(@, StoreRec("commit_failed", e))]
          /\ pc' = [pc EXCEPT ![r] = "rollback"]
          /\ UNCHANGED <<rows, createdBy, nextId, pending>>
    /\ UNCHANGED <<method, form, response>>
    /\ UNCHANGED <<encVars, bootVars>>

\* app.logger.info("Application inserted successfully") inside the try ; return redirect(...)
LogInserted(r) ==
    /\ pc[r] = "log_ok"
    /\ \/ /\ trace' = [trace EXCEPT ![r] = Append(@, LogRec("INFO", "inserted", NoExc))]
          /\ response' = [response EXCEPT ![r] = RedirectThankYou]
          /\ pc' = [pc EXCEPT ![r] = "done"]
          /\ UNCHANGED exc
       \/ /\ exc' = [exc EXCEPT ![r] = LoggingError]
          /\ pc' = [pc EXCEPT ![r] = "rollback"]
          /\ UNCHANGED <<trace, response>>
    /\ UNCHANGED <<method, form, pending, rows, createdBy, nextId>>
    /\ UNCHANGED <<encVars, bootVars>>

\* except Exception as e: db.session.rollback()
SessionRollback(r) ==
    /\ pc[r] = "rollback"
    /\ pending' = [pending EXCEPT ![r] = <<>>]
    /\ trace' = [trace EXCEPT ![r] = Append(@, StoreRec("rollback", NoExc))]
    /\ pc' = [pc EXCEPT ![r] = "log_err"]
    /\ UNCHANGED <<method, form, exc, response, rows, createdBy, nextId>>
    /\ UNCHANGED <<encVars, bootVars>>

\* app.logger.error("Database error ...: %s", e) ; return "Internal server error ...", 500
ReportFailure(r) ==
    /\ pc[r] = "log_err"
    /\ \/ /\ trace' = [trace EXCEPT ![r] = Append(@, LogRec("ERROR", "database_error", exc[r]))]
          /\ response' = [response EXCEPT ![r] = FailureResponse(exc[r])]
          /\ UNCHANGED exc
       \/ /\ exc' = [exc EXCEPT ![r] = LoggingError]
          /\ response' = [response EXCEPT ![r] = Raised]
          /\ UNCHANGED trace
    /\ pc' = [pc EXCEPT ![r] = "done"]
    /\ UNCHANGED <<method, form, pending, rows, createdBy, nextId>>
    /\ UNCHANGED <<encVars, bootVars>>

Next ==
    \E r \in Requests :
        \/ Get(r)
        \/ Post(r)
        \/ LogFormData(r)
        \/ RejectInvalid(r)
        \/ SessionAdd(r)
        \/ SessionCommit(r)
        \/ LogInserted(r)
        \/ SessionRollback(r)
        \/ ReportFailure(r)

Spec == Init /\ [][Next]_vars

\* ------------------------------------------------- the encoder, on its own
EncChars == {"a", Comma}
EncTexts == SeqsUpTo(EncChars, EncMaxLen)
EncLists == SeqsUpTo(EncTexts, EncMaxList)

EncInit ==
    /\ HandlerInit
    /\ rows = {}
    /\ createdBy = <<>>
    /\ nextId = 1
    /\ BootServing
    /\ encPc = "input"
    /\ encList \in EncLists
    /\ encText = EmptyText
    /\ encBack = <<>>

\* domains = ",".join(domains_list) if domains_list else ""
Encode ==
    /\ encPc = "input"
    /\ encText' = DomainEncode(encList)
    /\ encPc' = "encoded"
    /\ UNCHANGED <<encList, encBack, handlerVars, storeVars, bootVars>>

\* a consumer of the stored column splits it on ","
Decode ==
    /\ encPc = "encoded"
    /\ encBack' = SplitComma(encText)
    /\ encPc' = "decoded"
    /\ UNCHANGED <<encList, encText, handlerVars, storeVars, bootVars>>

EncNext == Encode \/ Decode

SpecEnc == EncInit /\ [][EncNext]_vars

\* ------------------------------------------------------ start-up bootstrap
\* the applications rows an earlier run of the process left in the table
OldRows(n) == {Row(i, NewApplication([fields |-> GoodFields, domains |-> GoodDomains])) : i \in 1..n}

\* the store: what schema, table and rows it holds
StoreState == [schema |-> schemaExists, table |-> tableExists, rows |-> rows]

BootInit ==
    /\ HandlerInit
    /\ EncIdle
    /\ bootPc = "create_schema"
    /\ bootRuns = 1
    /\ bootError = "none"
    /\ schemaPending = FALSE
    /\ bootDone = <<>>
    /\ \E n \in 0..MaxOldRows :
          /\ rows = OldRows(n)
          /\ createdBy = [i \in 1..n |-> 0]
          /\ nextId = n + 1
          /\ schemaExists \in BOOLEAN
          /\ tableExists \in BOOLEAN
          /\ tableExists => schemaExists
          /\ n > 0 => tableExists

\* a plausible slip: CREATE SCHEMA without IF NOT EXISTS
CreateSchemaPlain(exists) ==
    IF exists THEN [error |-> "DuplicateSchema", pending |-> FALSE]
    ELSE [error |-> "none", pending |-> TRUE]

\* CREATE SCHEMA IF NOT EXISTS ltlab_schema;
CreateSchemaIfNotExists(exists) ==
    IF exists THEN [error |-> "none", pending |-> FALSE]
    ELSE [error |-> "none", pending |-> TRUE]

\* a plausible slip: the tables are dropped and created again
CreateAllFresh(schema, table, rs) ==
    IF ~schema THEN [error |-> "InvalidSchemaName", table |-> table, rows |-> rs]
    ELSE [error |-> "none", table |-> TRUE, rows |-> {}]

\* db.create_all(): CREATE TABLE for every model whose table is not there yet
CreateAll(schema, table, rs) ==
    IF table THEN [error |-> "none", table |-> TRUE, rows |-> rs]
    ELSE IF ~schema THEN [error |-> "InvalidSchemaName", table |-> FALSE, rows |-> rs]
    ELSE [error |-> "none", table |-> TRUE, rows |-> rs]

\* an exception leaves __main__: the process ends, its open transaction is lost
BootFails(e) ==
    /\ bootError' = e
    /\ bootPc' = "crashed"
    /\ schemaPending' = FALSE

\* conn.execute(text("CREATE SCHEMA IF NOT EXISTS ltlab_schema;"))
BootCreateSchema ==
    /\ bootPc = "create_schema"
    /\ \/ LET res == CreateSchemaIfNotExists(schemaExists)
          IN IF res.error = "none"
             THEN /\ schemaPending' = res.pending
                  /\ bootPc' = "commit_schema"
                  /\ UNCHANGED bootError
             ELSE BootFails(res.error)
       \/ BootFails("OperationalError")
    /\ UNCHANGED <<bootRuns, schemaExists, tableExists, bootDone>>
    /\ UNCHANGED <<handlerVars, storeVars, encVars>>

\* conn.commit()
BootCommitSchema ==
    /\ bootPc = "commit_schema"
    /\ \/ /\ schemaExists' = (schemaExists \/ schemaPending)
          /\ schemaPending' = FALSE
          /\ bootPc' = "create_all"
          /\ UNCHANGED bootError
       \/ /\ BootFails("OperationalError")
          /\ UNCHANGED schemaExists
    /\ UNCHANGED <<bootRuns, tableExists, bootDone>>
    /\ UNCHANGED <<handlerVars, storeVars, encVars>>

\* db.create_all() ; app.run(...)
BootCreateAll ==
    /\ bootPc = "create_all"
    /\ \/ LET res == CreateAll(schemaExists, tableExists, rows)
          IN IF res.error = "none"
             THEN /\ tableExists' = res.table
                  /\ rows' = res.rows
                  /\ bootPc' = "serving"
                  /\ bootDone' = Append(bootDone,
                                        [schema |-> schemaExists, table |-> res.table, rows |-> res.rows])
                  /\ UNCHANGED <<bootError, schemaPending>>
             ELSE /\ BootFails(res.error)
                  /\ UNCHANGED <<tableExists, rows, bootDone>>
       \/ /\ BootFails("OperationalError")
          /\ UNCHANGED <<tableExists, rows, bootDone>>
    /\ UNCHANGED <<bootRuns, schemaExists, createdBy, nextId>>
    /\ UNCHANGED <<handlerVars, encVars>>

\* the process is started again: __main__ runs from its top
BootRestart ==
    /\ bootPc \in {"serving", "crashed"}
    /\ bootRuns < MaxBoots
    /\ bootRuns' = bootRuns + 1
    /\ bootPc' = "create_schema"
    /\ bootError' = "none"
    /\ schemaPending' = FALSE
    /\ UNCHANGED <<schemaExists, tableExists, bootDone>>
    /\ UNCHANGED <<handlerVars, storeVars, encVars>>

BootNext == BootCreateSchema \/ BootCommitSchema \/ BootCreateAll \/ BootRestart

SpecBoot == BootInit /\ [][BootNext]_vars

\* ------------------------------------------------------ what the claims use
IsPost(r) == method[r] = "POST"
\* apply() is over for r, by a return or by an exception leaving it
Ended(r) == pc[r] = "done"
\* apply() returned a response for r
Returned(r) == pc[r] = "done" /\ response[r].kind # "raised"
\* the rows request r stored
RowsOf(r) == {w \in rows : createdBy[w.id] = r}
HasEvent(r, rec) == \E i \in 1..Len(trace[r]) : trace[r][i] = rec
StoreCalls(r) == {i \in 1..Len(trace[r]) : trace[r][i].ev = "store"}
\* r's commit was accepted by the store
Committed(r) == HasEvent(r, StoreRec("commit", NoExc))
\* r's commit raised store error e
CommitFailedWith(r, e) == HasEvent(r, StoreRec("commit_failed", e))
CommitFailed(r) == \E e \in StoreErrors : CommitFailedWith(r, e)
\* a logger call of r raised
LoggerRaised(r) == exc[r] = LoggingError

FieldMissing(f) == \E k \in Fields : f.fields[k] = None \/ f.fields[k] = Text(EmptyText)
NoDomains(f) == Len(f.domains) = 0
AllFieldsFilled(f) == \A k \in Fields : f.fields[k] # None /\ f.fields[k][1] # EmptyText

\* the text a response shows as an error, "" when it shows none
ErrorText(resp) == IF resp.kind = "text" THEN resp.body ELSE resp.error

FormDataRec == LogRec("INFO", "form_data", NoExc)
WarningRec == LogRec("WARNING", "validation_failed", NoExc)
InsertedRec == LogRec("INFO", "inserted", NoExc)

\* ------------------------------------------------------------------- C1
\* C1: a POST with one of the seven fields absent or empty, or with no domain
\* selected, never reaches the session (no add, no commit, nothing pending),
\* stores no row, and whenever apply() returns for it the response is the form
\* rendered with exactly the fixed validation message, after the form-data
\* record and the warning; the no-domain case gets the same response and the
\* same trace as the missing-field case.
C1_InvalidRejected ==
    \A r \in Requests :
        (IsPost(r) /\ (FieldMissing(form[r]) \/ NoDomains(form[r]))) =>
            /\ StoreCalls(r) = {}
            /\ pending[r] = <<>>
            /\ RowsOf(r) = {}
            /\ pc[r] \in {"log_form", "validate", "done"}
            /\ Returned(r) =>
                  /\ response[r] = RenderApply(ValidationMessage)
                  /\ trace[r] = <<FormDataRec, WarningRec>>

\* C1 witness: one returned request with a missing field and one with no domain
C1_Witness ==
    \E r1, r2 \in Requests :
        /\ IsPost(r1) /\ Returned(r1) /\ FieldMissing(form[r1]) /\ ~NoDomains(form[r1])
        /\ IsPost(r2) /\ Returned(r2) /\ ~FieldMissing(form[r2]) /\ NoDomains(form[r2])
        /\ response[r1] = response[r2]

\* ------------------------------------------------------------------- C2
\* C2 as stated: a POST with seven non-empty fields and a non-empty domains
\* list whose commit the store accepted ends with exactly one row of its own,
\* holding the submitted values and the comma-join of the list in input order
\* with duplicates kept, and returns the redirect to /thank-you.
C2_AcceptedCommitRedirects ==
    \A r \in Requests :
        (IsPost(r) /\ AllFieldsFilled(form[r]) /\ ~NoDomains(form[r])
                   /\ Committed(r) /\ Returned(r)) =>
            /\ Cardinality(RowsOf(r)) = 1
            /\ \A w \in RowsOf(r) :
                  /\ w.app.email = form[r].fields["email"]
                  /\ w.app.full_name = form[r].fields["fullName"]
                  /\ w.app.gender = form[r].fields["gender"]
                  /\ w.app.whatsapp = form[r].fields["whatsapp"]
                  /\ w.app.education = form[r].fields["college"]
                  /\ w.app.country = form[r].fields["country"]
                  /\ w.app.linkedin = form[r].fields["linkedin"]
                  /\ w.app.domains = JoinComma(form[r].domains)
            /\ response[r] = RedirectThankYou

\* ------------------------------------------------------------------- C3
\* C3 as stated: a request whose commit failed has, once rolled back, nothing
\* pending and no row of its own; and every request that returned the 500
\* failure response has no row of its own.
C3_FailureStoresNothing ==
    \A r \in Requests :
        /\ (CommitFailed(r) /\ pc[r] \in {"log_err", "done"}) =>
              (pending[r] = <<>> /\ RowsOf(r) = {})
        /\ (Returned(r) /\ response[r].status = 500) => RowsOf(r) = {}

\* ------------------------------------------------------------------- C4
\* C4: every response apply() returns shows as error text nothing but the fixed
\* validation message or the fixed failure message, and any two returned
\* requests with the same form whose commits failed with different store errors
\* have the same response: status 500 and the fixed failure message.
C4_ResponseHidesStoreError ==
    /\ \A r \in Requests :
          Returned(r) => ErrorText(response[r]) \in {"", ValidationMessage, FailureMessage}
    /\ \A r1, r2 \in Requests :
          (/\ IsPost(r1) /\ IsPost(r2) /\ Returned(r1) /\ Returned(r2)
           /\ form[r1] = form[r2]
           /\ \E e1, e2 \in StoreErrors :
                 e1 # e2 /\ CommitFailedWith(r1, e1) /\ CommitFailedWith(r2, e2)) =>
              /\ response[r1] = response[r2]
              /\ response[r1].status = 500
              /\ response[r1].body = FailureMessage

\* C4 witness: two returned requests, same form, commits failed differently
C4_Witness ==
    \E r1, r2 \in Requests :
        /\ Returned(r1) /\ Returned(r2) /\ form[r1] = form[r2]
        /\ CommitFailedWith(r1, "OperationalError")
        /\ CommitFailedWith(r2, "IntegrityError")

\* ------------------------------------------------------------------- C5
\* C5 as stated: every stored row has its eight attributes present and
\* non-empty, and its domains value split on "," has a non-empty category.
C5_RowsHaveACategory ==
    \A w \in rows :
        /\ NotNull(w.app)
        /\ w.app.email[1] # EmptyText /\ w.app.full_name[1] # EmptyText
        /\ w.app.gender[1] # EmptyText /\ w.app.whatsapp[1] # EmptyText
        /\ w.app.education[1] # EmptyText /\ w.app.country[1] # EmptyText
        /\ w.app.linkedin[1] # EmptyText
        /\ w.app.domains # EmptyText
        /\ \E i \in 1..Len(SplitComma(w.app.domains)) : SplitComma(w.app.domains)[i] # EmptyText

\* ------------------------------------------------------------------- C7
\* C7 as stated: a request in which a logger call raised still ends with the
\* response it would have had with logging working: the validation message for
\* an invalid form, the redirect after an accepted commit, the fixed 500 after
\* a failed commit; in particular never the 500 with a row of its own stored.
C7_LoggingFailureHarmless ==
    \A r \in Requests :
        (IsPost(r) /\ Ended(r) /\ LoggerRaised(r)) =>
            /\ response[r].kind # "raised"
            /\ (FieldMissing(form[r]) \/ NoDomains(form[r])) =>
                  response[r] = RenderApply(ValidationMessage)
            /\ Committed(r) => response[r] = RedirectThankYou
            /\ CommitFailed(r) => response[r].body = FailureMessage
            /\ ~(response[r].status = 500 /\ RowsOf(r) # {})

\* ------------------------------------------------------------------- C9
\* C9 as stated: the trace of every returned POST is the form-data record
\* first, before validation and any session call, then exactly one outcome
\* record: the warning for an invalid form, the inserted record after an
\* accepted commit, the error record with the store's error after the rollback
\* of a failed one.
C9_OneOutcomeRecordInOrder ==
    \A r \in Requests :
        (IsPost(r) /\ Returned(r)) =>
            \/ /\ ~Committed(r) /\ ~CommitFailed(r)
               /\ trace[r] = <<FormDataRec, WarningRec>>
            \/ /\ Committed(r)
               /\ trace[r] = <<FormDataRec, StoreRec("add", NoExc),
                               StoreRec("commit", NoExc), InsertedRec>>
            \/ \E e \in StoreErrors :
                  /\ CommitFailedWith(r, e)
                  /\ trace[r] = <<FormDataRec, StoreRec("add", NoExc),
                                  StoreRec("commit_failed", e), StoreRec("rollback", NoExc),
                                  LogRec("ERROR", "database_error", e)>>

\* ------------------------------------------------------------------ C10
\* the requests in the Persisted outcome: commit accepted and not in the
\* except clause, ending with the redirect
Persisted(r) ==
    /\ Committed(r)
    /\ exc[r] = NoExc
    /\ Ended(r) => response[r] = RedirectThankYou

\* C10 as stated: under every interleaving the table holds as many rows as
\* there are requests in the Persisted outcome, each of them has exactly one
\* row of its own, still equal to what it submitted, the identities are all
\* different, and a request that is not Persisted has no row.
C10_RowsMatchPersisted ==
    /\ Cardinality(rows) = Cardinality({r \in Requests : Persisted(r)})
    /\ \A r \in Requests :
          Persisted(r) =>
              /\ Cardinality(RowsOf(r)) = 1
              /\ \A w \in RowsOf(r) : w.app = NewApplication(form[r])
    /\ \A w1, w2 \in rows : w1.id = w2.id => w1 = w2

\* ------------------------------------------------------------------- C6
\* whether text s holds a comma
HasComma(s) == \E i \in 1..Len(s) : s[i] = Comma

\* C6 as stated: splitting the encoded text on "," gives back the list, for
\* every list, and the empty list encodes to the empty text.
C6_RoundTripEveryList ==
    /\ encPc = "decoded" => encBack = encList
    /\ (encPc # "input" /\ encList = <<>>) => encText = EmptyText

\* C6 amended: splitting the encoded text on "," gives back the list for every
\* non-empty list none of whose entries holds a comma (empty entries and
\* duplicates included), and the empty list encodes to the empty text.
C6_RoundTripCommaFree ==
    /\ (/\ encPc = "decoded"
        /\ encList # <<>>
        /\ \A i \in 1..Len(encList) : ~HasComma(encList[i])) => encBack = encList
    /\ (encPc # "input" /\ encList = <<>>) => encText = EmptyText

\* C6 witness: a list with an empty entry and a duplicate came back whole
C6_Witness ==
    /\ encPc = "decoded"
    /\ Len(encList) = 2
    /\ encList[1] = EmptyText
    /\ encList[2] = encList[1]
    /\ encBack = encList

\* ------------------------------------------------------------------- C8
\* C8: the table exists only with the schema, create_all runs only once the
\* schema is committed, no start ends on an error other than the store being
\* unreachable, and every completed start after the first leaves the schema,
\* the table and the rows exactly as the completed start before it left them.
C8_BootIdempotentOrdered ==
    /\ tableExists => schemaExists
    /\ bootPc = "create_all" => (schemaExists /\ ~schemaPending)
    /\ bootError \in {"none", "OperationalError"}
    /\ \A i \in 1..Len(bootDone) :
          /\ bootDone[i].schema /\ bootDone[i].table
          /\ i > 1 => bootDone[i] = bootDone[i - 1]
    /\ (bootPc = "serving" /\ Len(bootDone) > 0) => StoreState = bootDone[Len(bootDone)]

\* C8 witness: two starts completed over a table that holds rows
C8_Witness ==
    /\ Len(bootDone) >= 2
    /\ bootPc = "serving"
    /\ rows # {}

====
